---- MODULE Spec2Model ----
(***************************************************************************)
(* Model of app.py: the energy-demand dashboard.                           *)
(*                                                                         *)
(* Timestamps are integers counting minutes; a calendar date is its day    *)
(* number.  A DataFrame is a record [index, columns]: index is the         *)
(* sequence of row keys, columns maps each column name to the sequence of  *)
(* its values (one per row).  An optional value (Python None) is a         *)
(* sequence of length 0, a present value v is <<v>>.                       *)
(***************************************************************************)
EXTENDS Integers, Sequences, FiniteSets, TLC

VARIABLES
    csv,           \* which file the process finds as datos_energia.csv (never written)
    data,          \* module-level DataFrame `data`
    firstFig,      \* what the very first request produced
    figure,        \* `figure` property of dcc.Graph "plot_series"
    pc,            \* position of the process: import, loaded, ready, serving, fatal
    loads,         \* number of times load_data has run
    date,          \* value of the date picker
    hour,          \* value of the hour dropdown
    proy,          \* value of the horizon slider
    initial_date,  \* start timestamp handed to plot_series by the last request
    outcome,       \* how the last callback ended
    calls          \* plot_series invocations made by the last callback

vars == <<csv, data, firstFig, figure, pc, loads, date, hour, proy,
          initial_date, outcome, calls>>

-----------------------------------------------------------------------------
(* Bounds of the model *)

\* number of rows of the data files
MaxRows == 126
\* hour of day 0 at which the files start
FirstHour == 5
\* length in hours of the hole in the file with missing hours
GapHours == 9

(* Program constants *)

\* the literal 120 of data_plot[:-(120-proy)]
Buffer == 120
\* dcc.Slider(min=0, max=119, step=1, value=0)
SliderMin == 0
SliderMax == 119
SliderInitial == 0
\* np.arange(0,25): the hour dropdown offers 0..24
HourStop == 25
\* dt.timedelta(days=7)
InitialBackDays == 7

None == <<>>
Some(v) == <<v>>
IsNone(o) == o = <<>>
Val(o) == o[1]

OBSERVED == "AT_load_actual_entsoe_transparency"
FORECAST == "forecast"
UPPER == "Upper bound"
LOWER == "Lower bound"
RequiredColumns == {OBSERVED, FORECAST, UPPER, LOWER}

-----------------------------------------------------------------------------
(* Timestamps *)

\* pd.to_datetime on the fields <<day, hour, minute>> of a date-time text:
\* the value in minutes, or None when a field is out of range (ValueError).
ToDatetime(text) ==
    IF text[2] \in 0..23 /\ text[3] \in 0..59
    THEN Some((text[1] * 24 + text[2]) * 60 + text[3])
    ELSE None

\* Timestamp.date / Timestamp.hour (floor division, also for negatives)
DateOf(ts) == ts \div (24 * 60)
HourOf(ts) == (ts \div 60) % 24

\* the text of a timestamp as the file holds it
TextOf(ts) == <<DateOf(ts), HourOf(ts), ts % 60>>

-----------------------------------------------------------------------------
(* The data files the process may find at start *)

\* a measurement of column c in row i
Cell(c, i) ==
    CASE c = OBSERVED -> 50 + ((i * 7) % 11)
      [] c = FORECAST -> 52 + ((i * 5) % 7)
      [] c = UPPER    -> 56 + ((i * 5) % 7)
      [] OTHER        -> 48 + ((i * 5) % 7)

\* key of row i of an hourly file that starts `shift` minutes after
\* FirstHour and lacks the GapHours hours that follow row gapAt
RowTime(i, shift, gapAt) ==
    (FirstHour + (i - 1) + (IF i > gapAt THEN GapHours ELSE 0)) * 60 + shift

File(n, shift, gapAt, names) ==
    [ exists |-> TRUE,
      header |-> names,
      time   |-> [i \in 1..n |-> TextOf(RowTime(i, shift, gapAt))],
      cols   |-> [c \in names \ {"time"} |-> [i \in 1..n |-> Cell(c, i)]] ]

AllNames == RequiredColumns \cup {"time"}

HourlyFile == File(MaxRows, 0, MaxRows, AllNames)
GapFile == File(MaxRows, 0, MaxRows \div 3, AllNames)
ShortFile == File(Buffer \div 2, 0, MaxRows, AllNames)
EmptyFile == File(0, 0, 0, AllNames)
LackingFile(c) == File(MaxRows, 0, MaxRows, AllNames \ {c})
ShortLackingFile(c) == File(Buffer \div 2, 0, MaxRows, AllNames \ {c})
NoTimeFile == File(3, 0, 3, RequiredColumns)
BadTimeFile ==
    [HourlyFile EXCEPT !.time = [i \in 1..MaxRows |->
        IF i = 2 THEN <<0, 24, 0>> ELSE HourlyFile.time[i]]]
MissingFile == [exists |-> FALSE, header |-> {}, time |-> <<>>, cols |-> <<>>]

GapHalfHourFile == File(MaxRows, 30, MaxRows \div 3, AllNames)

\* what the file of each name holds
Content(name) ==
    CASE name = "hourly" -> HourlyFile
      [] name = "gap" -> GapFile
      [] name = "gap at half hours" -> GapHalfHourFile
      [] name = "short" -> ShortFile
      [] name = "no lower bound" -> LackingFile(LOWER)
      [] name = "short, no observed" -> ShortLackingFile(OBSERVED)
      [] name = "short, no forecast" -> ShortLackingFile(FORECAST)
      [] name = "short, no upper bound" -> ShortLackingFile(UPPER)
      [] name = "short, no lower bound" -> ShortLackingFile(LOWER)
      [] name = "empty" -> EmptyFile
      [] name = "no time" -> NoTimeFile
      [] name = "bad time" -> BadTimeFile
      [] OTHER -> MissingFile

\* files on which the process fails at start
FatalFiles == {"empty", "no time", "bad time", "missing"}

-----------------------------------------------------------------------------
(* load_data *)

NoFrame == [index |-> <<>>, columns |-> <<>>]

\* pd.read_csv, pd.to_datetime on the time column, set_index:
\* the error raised, or the DataFrame
load_data(name) ==
    LET file == Content(name) IN
    IF ~file.exists THEN [error |-> "FileNotFoundError", frame |-> NoFrame]
    ELSE IF "time" \notin file.header THEN [error |-> "KeyError", frame |-> NoFrame]
    ELSE IF \E i \in 1..Len(file.time) : IsNone(ToDatetime(file.time[i]))
         THEN [error |-> "ValueError", frame |-> NoFrame]
    ELSE [ error |-> "",
           frame |-> [ index   |-> [i \in 1..Len(file.time) |-> Val(ToDatetime(file.time[i]))],
                       columns |-> file.cols ] ]

-----------------------------------------------------------------------------
(* DataFrame slicing *)

\* rows a..b of a frame
Rows(frame, a, b) ==
    [ index   |-> SubSeq(frame.index, a, b),
      columns |-> [c \in DOMAIN frame.columns |-> SubSeq(frame.columns[c], a, b)] ]

\* (keys equal to the label left out)
LocFromAfter(frame, label) ==
    LET n == Len(frame.index)
        below == Cardinality({i \in 1..n : frame.index[i] <= label})
    IN  Rows(frame, below + 1, n)

\* frame.loc[label:] on an ascending index: searchsorted(label, side="left")
\* gives the number of keys below label; the rows after them are kept
LocFrom(frame, label) ==
    LET n == Len(frame.index)
        below == Cardinality({i \in 1..n : frame.index[i] < label})
    IN  Rows(frame, below + 1, n)

\* (a stop before the first row taken as no stop at all)
SliceToWrapped(frame, stop) ==
    LET n == Len(frame.index)
        s == IF stop < 0 THEN (IF stop + n < 0 THEN n ELSE stop + n)
             ELSE (IF stop > n THEN n ELSE stop)
    IN  Rows(frame, 1, s)

\* frame[:stop], Python slice semantics: a negative stop counts from the
\* end, and the result is clipped to the frame
SliceTo(frame, stop) ==
    LET n == Len(frame.index)
        s == IF stop < 0 THEN (IF stop + n < 0 THEN 0 ELSE stop + n)
             ELSE (IF stop > n THEN n ELSE stop)
    IN  Rows(frame, 1, s)

-----------------------------------------------------------------------------
(* plot_series *)

NoFigure == [kind |-> "None"]

\* the stop of data_plot[:-(120-proy)]
TrimStopShort(horizon) == -(SliderMax - horizon)
TrimStopFixed(horizon) == -Buffer
TrimStop(horizon) == -(Buffer - horizon)

\* data.loc[initial_date:] and then data_plot[:-(120-proy)]
Window(frame, start, horizon) == SliceTo(LocFrom(frame, start), TrimStop(horizon))

\* the column each trace draws, and the name it carries, in the order of the
\* list handed to go.Figure
TraceColumnsSwapped == <<OBSERVED, FORECAST, LOWER, UPPER>>
TraceColumns == <<OBSERVED, FORECAST, UPPER, LOWER>>
TraceNames == <<"Demanda energética", "Proyección", "Upper Bound", "Lower Bound">>

\* go.Scatter(name=..., x=data_plot.index, y=data_plot[column], ...)
Scatter(data_plot, i) ==
    [ name |-> TraceNames[i],
      x |-> data_plot.index,
      y |-> data_plot.columns[TraceColumns[i]],
      mode |-> "lines",
      showlegend |-> i \in {1, 2},
      fill |-> IF i = 4 THEN "tonexty" ELSE "none" ]

\* go.Figure([...]) and the two update_layout calls
Figure(traces) ==
    [ kind |-> "Figure",
      data |-> traces,
      yaxis_title |-> "Demanda total [MW]",
      hovermode |-> "x" ]

\* a chart of the columns that are there
plot_series_partial(frame, start, horizon) ==
    LET data_plot == Window(frame, start, horizon)
        there == SelectSeq(<<1, 2, 3, 4>>, LAMBDA i : TraceColumns[i] \in DOMAIN data_plot.columns)
    IN  [error |-> "", fig |-> Figure([k \in 1..Len(there) |-> Scatter(data_plot, there[k])])]

\* the KeyError of data_plot[column], or the figure with its four traces
plot_series(frame, start, horizon) ==
    LET data_plot == Window(frame, start, horizon)
    IN  IF \E i \in 1..4 : TraceColumns[i] \notin DOMAIN data_plot.columns
        THEN [error |-> "KeyError", fig |-> NoFigure]
        ELSE [error |-> "", fig |-> Figure([i \in 1..4 |-> Scatter(data_plot, i)])]

-----------------------------------------------------------------------------
(* generate_control_card: what the three controls offer and start with *)

MaxOf(S) == CHOOSE m \in S : \A k \in S : k <= m
MinOf(S) == CHOOSE m \in S : \A k \in S : m <= k
Keys(frame) == {frame.index[i] : i \in 1..Len(frame.index)}

\* min_date_allowed, max_date_allowed of the date picker
min_date_allowed(frame) == MinOf({DateOf(k) : k \in Keys(frame)})
max_date_allowed(frame) == MaxOf({DateOf(k) : k \in Keys(frame)})
\* date=max(data.index.date)-dt.timedelta(days=7)
InitialDate(frame) == max_date_allowed(frame) - InitialBackDays
\* value=pd.to_datetime(max(data.index)-dt.timedelta(days=7)).hour
InitialHour(frame) == HourOf(MaxOf(Keys(frame)) - InitialBackDays * 24 * 60)

\* dates the picker lets the user choose
DateOptions(frame) == min_date_allowed(frame)..max_date_allowed(frame)
\* options of the hour dropdown
HourOptions == 0..(HourStop - 1)
\* positions of the slider
SliderOptions == SliderMin..SliderMax

-----------------------------------------------------------------------------
(* update_output_div *)

\* The callback on the three control values: what it raises or returns, the
\* start timestamp it built and the number of plot_series calls it made.
update_output_div(frame, d, h, p) ==
    IF ~IsNone(d) /\ ~IsNone(h) /\ ~IsNone(p)
    THEN LET ts == ToDatetime(<<Val(d), Val(h), 0>>)
         IN  IF IsNone(ts)
             THEN [raised |-> "ValueError", value |-> NoFigure, start |-> None, plots |-> 0]
             ELSE LET plot == plot_series(frame, Val(ts), Val(p))
                  IN  [raised |-> plot.error, value |-> plot.fig, start |-> ts, plots |-> 1]
    ELSE [raised |-> "", value |-> NoFigure, start |-> None, plots |-> 0]

\* (a figure, once drawn, is kept)
OutputFigureKept(shown, ret) ==
    IF ret.raised = "" /\ shown.kind # "Figure" THEN ret.value ELSE shown

\* Output(component_id="plot_series", component_property="figure"): the value
\* the callback returns becomes the figure; a callback that raises updates
\* nothing.
OutputFigure(shown, ret) == IF ret.raised = "" THEN ret.value ELSE shown

OutcomeOf(ret) ==
    IF ret.raised # "" THEN ret.raised
    ELSE IF ret.plots = 1 THEN "figure" ELSE "None"

-----------------------------------------------------------------------------
(* The process *)

\* slider positions the user moves to in the served model
SliderStops == {SliderMin, SliderMin + 1, SliderMax \div 2, SliderMax}

ServedFiles == {"hourly", "gap", "no lower bound"} \cup FatalFiles

Init ==
    /\ csv \in ServedFiles
    /\ pc = "import"
    /\ data = NoFrame
    /\ loads = 0
    /\ date = None /\ hour = None /\ proy = None
    /\ initial_date = None
    /\ figure = NoFigure
    /\ outcome = "none"
    /\ calls = 0
    /\ firstFig = NoFigure

\* (the file is read again while requests are served)
LoadDataAgain ==
    /\ pc \in {"import", "serving"}
    /\ LET r == load_data(csv)
       IN  /\ data' = r.frame
           /\ pc' = IF r.error # "" THEN "fatal" ELSE IF pc = "import" THEN "loaded" ELSE pc
    /\ loads' = loads + 1
    /\ UNCHANGED <<csv, date, hour, proy, initial_date, figure, outcome, calls, firstFig>>

\* data = load_data()
LoadData ==
    /\ pc = "import"
    /\ LET r == load_data(csv)
       IN  /\ data' = r.frame
           /\ pc' = IF r.error = "" THEN "loaded" ELSE "fatal"
    /\ loads' = loads + 1
    /\ UNCHANGED <<csv, date, hour, proy, initial_date, figure, outcome, calls, firstFig>>

\* app.layout = ...: min() and max() of an empty index raise ValueError
BuildLayout ==
    /\ pc = "loaded"
    /\ IF Len(data.index) = 0
       THEN /\ pc' = "fatal"
            /\ UNCHANGED <<date, hour, proy>>
       ELSE /\ pc' = "ready"
            /\ date' = Some(InitialDate(data))
            /\ hour' = Some(InitialHour(data))
            /\ proy' = Some(SliderInitial)
    /\ UNCHANGED <<csv, data, loads, initial_date, figure, outcome, calls, firstFig>>

\* the callback fires on the control values d, h, p
Fire(d, h, p, shown) ==
    LET ret == update_output_div(data, d, h, p)
    IN  /\ date' = d /\ hour' = h /\ proy' = p
        /\ figure' = OutputFigure(shown, ret)
        /\ outcome' = OutcomeOf(ret)
        /\ initial_date' = ret.start
        /\ calls' = ret.plots
        /\ firstFig' = IF pc = "ready" THEN OutputFigure(shown, ret) ELSE firstFig
        /\ pc' = "serving"
        /\ UNCHANGED <<csv, data, loads>>

\* a browser loads the page: the controls hold their initial values, the
\* graph has no figure, and the callback fires once
PageLoad ==
    /\ pc \in {"ready", "serving"}
    /\ Fire(Some(InitialDate(data)), Some(InitialHour(data)), Some(SliderInitial), NoFigure)

SetDate ==
    /\ pc = "serving"
    /\ \E d \in {Some(v) : v \in DateOptions(data)} \cup {None} :
          d # date /\ Fire(d, hour, proy, figure)

SetHour ==
    /\ pc = "serving"
    /\ \E h \in {Some(v) : v \in HourOptions} \cup {None} :
          h # hour /\ Fire(date, h, proy, figure)

SetSlider ==
    /\ pc = "serving"
    /\ \E p \in {Some(v) : v \in SliderStops} \cup {None} :
          p # proy /\ Fire(date, hour, p, figure)

Next == LoadData \/ BuildLayout \/ PageLoad \/ SetDate \/ SetHour \/ SetSlider

Spec == Init /\ [][Next]_vars

-----------------------------------------------------------------------------
(* plot_series on its own: every table, start and horizon *)

PlottedFiles ==
    {"hourly", "gap at half hours", "short", "short, no observed",
     "short, no forecast", "short, no upper bound", "short, no lower bound"}

\* start timestamps on the hour, from two hours before the first key of
\* the table to two hours after its last
StartsOf(frame) ==
    {h * 60 : h \in (MinOf(Keys(frame)) \div 60 - 2)..(MaxOf(Keys(frame)) \div 60 + 2)}

InitPlot ==
    /\ csv \in PlottedFiles
    /\ pc = "call"
    /\ data = load_data(csv).frame
    /\ loads = 1
    /\ date = None /\ hour = None
    /\ proy \in {Some(v) : v \in SliderOptions}
    /\ initial_date \in {Some(t) : t \in StartsOf(data)}
    /\ figure = NoFigure
    /\ outcome = "none"
    /\ calls = 0
    /\ firstFig = NoFigure

\* plot_series(data, initial_date, p) is called and returns or raises
Plot(p) ==
    LET plot == plot_series(data, Val(initial_date), p)
    IN  /\ proy' = Some(p)
        /\ figure' = plot.fig
        /\ outcome' = IF plot.error = "" THEN "figure" ELSE plot.error
        /\ calls' = 1
        /\ pc' = "returned"
        /\ UNCHANGED <<csv, data, loads, date, hour, initial_date, firstFig>>

PlotCall == pc = "call" /\ Plot(Val(proy))

\* the same start is plotted again, one hour more of horizon
NextHorizon == pc = "returned" /\ Val(proy) < SliderMax /\ Plot(Val(proy) + 1)

\* the same start is plotted again, from the least to the greatest horizon
TopHorizon == pc = "returned" /\ Val(proy) = SliderMin /\ Plot(SliderMax)

NextPlot == PlotCall \/ NextHorizon \/ TopHorizon

SpecPlot == InitPlot /\ [][NextPlot]_vars

-----------------------------------------------------------------------------
(* Vocabulary of the properties *)

\* the table has the four plotted columns
Complete(frame) == RequiredColumns \subseteq DOMAIN frame.columns

\* positions of the table records at or after the start of the last request
AtOrAfter == {i \in 1..Len(data.index) : data.index[i] >= Val(initial_date)}
Remaining == Cardinality(AtOrAfter)

\* position of the first record at or after the start (one past the end of
\* the table when there is none), and the number of records trimmed
FirstShown == IF AtOrAfter = {} THEN Len(data.index) + 1 ELSE MinOf(AtOrAfter)
Trimmed == Buffer - Val(proy)
LastShown == Len(data.index) - Trimmed

Returned == pc = "returned"
Charted == outcome = "figure" /\ figure.kind = "Figure"
AllSeriesHave(n) ==
    \A i \in DOMAIN figure.data : Len(figure.data[i].x) = n /\ Len(figure.data[i].y) = n
VisibleLen == Len(figure.data[1].x)

\* records from position a through position b of a sequence, none when b < a
Run(seq, a, b) == [k \in 1..(IF b < a THEN 0 ELSE b - a + 1) |-> seq[a + k - 1]]

-----------------------------------------------------------------------------
(* Properties of plot_series, checked under SpecPlot *)

\* C1: for a horizon in 0..119 and a start with at least 120 table records
\* at or after it, plot_series returns a chart whose series all have the
\* same length, the number of records at or after the start less (120 - h).
C1_WindowLength ==
    (Returned /\ Complete(data) /\ Val(proy) \in SliderOptions /\ Remaining >= Buffer)
        => (Charted /\ AllSeriesHave(Remaining - Trimmed))

C1_Witness ==
    /\ Returned /\ Charted /\ Remaining > Buffer /\ Remaining < Len(data.index)
    /\ Val(proy) = 37
    /\ VisibleLen = Remaining - 83

\* C2 as stated: for any start, one more hour of horizon shows exactly one
\* more point, and horizon 119 shows 119 more points than horizon 0.
C2_Step ==
    (Returned /\ Returned' /\ Complete(data))
        => /\ Val(proy') = Val(proy) + 1 => VisibleLen' = VisibleLen + 1
           /\ (Val(proy) = SliderMin /\ Val(proy') = SliderMax)
                 => VisibleLen' = VisibleLen + SliderMax
\* C2 as stated, over every step that plots the same start again
C2_Original == [][C2_Step]_vars

\* C2 amended: the step from h to h+1 shows exactly one more point when at
\* least (120 - h) records lie at or after the start, and horizon 119 shows
\* 119 more points than horizon 0 when at least 120 do.
C2_StepAmended ==
    (Returned /\ Returned' /\ Complete(data))
        => /\ (Val(proy') = Val(proy) + 1 /\ Remaining >= Trimmed)
                 => VisibleLen' = VisibleLen + 1
           /\ (Val(proy) = SliderMin /\ Val(proy') = SliderMax /\ Remaining >= Buffer)
                 => VisibleLen' = VisibleLen + SliderMax
\* C2 amended, over every step that plots the same start again
C2_Monotone == [][C2_StepAmended]_vars

C2_Witness ==
    /\ Returned /\ Charted /\ Val(proy) = SliderMax
    /\ Remaining >= Buffer
    /\ VisibleLen = (Remaining - Buffer) + SliderMax

C5_MissingColumn ==
    (Returned /\ ~Complete(data)) => (outcome = "KeyError" /\ figure = NoFigure)

C5_Witness ==
    /\ Returned /\ LOWER \notin DOMAIN data.columns
    /\ Remaining > Trimmed
    /\ outcome = "KeyError"

\* C8: on an ascending table of N records the window is the run of table
\* records from the first one whose key is at or after the start (a key
\* equal to the start included) through the one N - (120 - h) - 1 places
\* after its first record, in table order.
C8_ContiguousWindow ==
    (Returned /\ Complete(data))
        => /\ Charted
           /\ \A i \in 1..4 :
                /\ figure.data[i].x = Run(data.index, FirstShown, LastShown)
                /\ figure.data[i].y = Run(data.columns[TraceColumns[i]], FirstShown, LastShown)

C8_Witness ==
    /\ Returned /\ Charted /\ Val(proy) = SliderMax
    /\ VisibleLen >= 2
    /\ FirstShown > 1
    /\ figure.data[1].x[1] = Val(initial_date)
    /\ figure.data[1].x[VisibleLen] = data.index[Len(data.index) - 1]

\* C9: when the start lies after the last key, or no more than (120 - h)
\* records lie at or after it, plot_series raises nothing and returns a
\* chart whose four series are empty.
C9_EmptyWindow ==
    (Returned /\ Complete(data) /\ Val(proy) \in SliderOptions /\ Remaining <= Trimmed)
        => (Charted /\ DOMAIN figure.data = 1..4 /\ AllSeriesHave(0))

C9_Witness ==
    /\ Returned /\ Charted
    /\ Remaining > 0 /\ Remaining < Trimmed
    /\ AllSeriesHave(0)

-----------------------------------------------------------------------------
(* Properties of the served process, checked under Spec *)

Serving == pc = "serving"
Incomplete(d, h, p) == IsNone(d) \/ IsNone(h) \/ IsNone(p)
AtInitialControls ==
    /\ date = Some(InitialDate(data))
    /\ hour = Some(InitialHour(data))
    /\ proy = Some(SliderInitial)

\* C3: a request in which the date, the hour or the horizon is absent calls
\* plot_series not at all and leaves the chart on display as it was.
C3_Step ==
    (Serving /\ Serving' /\ Incomplete(date', hour', proy'))
        => (calls' = 0 /\ figure' = figure)
\* C3 over every request served
C3_IncompleteIsNoOp == [][C3_Step]_vars

\* C6: load_data runs exactly once, before the layout is built and before
\* any request is served, and no request changes the loaded table.
C6_LoadedOnce ==
    /\ pc = "import" => (loads = 0 /\ outcome = "none")
    /\ pc \in {"loaded", "ready", "serving"}
          => (loads = 1 /\ data = load_data(csv).frame)
    /\ outcome # "none" => (Serving /\ loads = 1)

C6_Witness ==
    /\ Serving /\ loads = 1 /\ Charted
    /\ ~AtInitialControls /\ proy = Some(SliderMax)
    /\ VisibleLen > 0
    /\ Len(data.index) = MaxRows

C10_EveryInputCharts ==
    ( /\ Serving /\ Complete(data)
      /\ ~Incomplete(date, hour, proy)
      /\ Val(date) \in DateOptions(data)
      /\ Val(hour) \in HourOptions
      /\ Val(proy) \in SliderOptions )
        => (outcome = "figure" /\ calls = 1 /\ ~IsNone(initial_date))

====
